---- MODULE Spec2Model ----
(***************************************************************************)
(* TLS transport over PKCS #11 (tls_freertos_pkcs11.c).                    *)
(*                                                                         *)
(* One network context is operated from one thread of control.  The public *)
(* entry points TLS_FreeRTOS_Connect, TLS_FreeRTOS_Disconnect,             *)
(* TLS_FreeRTOS_recv and TLS_FreeRTOS_send, the static helpers tlsSetup,   *)
(* sslContextInit, sslContextFree, initializeClientKeys,                   *)
(* readCertificateIntoContext and the engine callback                      *)
(* privateKeySigningCallback are modelled.  The TLS engine (mbed TLS), the *)
(* socket wrapper and the PKCS #11 token are collaborators: every result   *)
(* they hand back is drawn from a small set.                               *)
(***************************************************************************)
EXTENDS Integers, Sequences, FiniteSets, TLC

VARIABLES
    pc,            \* position of the thread of control inside the current call
    args,          \* arguments of the TLS_FreeRTOS_Connect call in progress (or last made)
    returnStatus,  \* TLS_FreeRTOS_Connect's local returnStatus
    setupStatus,   \* tlsSetup's local returnStatus
    tcpSocket,     \* pNetworkContext->tcpSocket
    sslContext,    \* pNetworkContext->sslContext
    openSockets,   \* transport side: the socket handles that are open
    tokenSessions, \* token side: the session handles that are open
    mutexHooks,    \* process wide: mbed TLS threading callbacks installed
    established,   \* the last Connect returned success and no Disconnect followed
    calls,         \* collaborator operations invoked by the call in progress (or last made)
    firstFailure,  \* the first stage of that call whose collaborator reported failure
    hs,            \* results of mbedtls_ssl_handshake seen by the retry loop
    sig,           \* what the last privateKeySigningCallback did
    io,            \* what the last recv / send did
    load,          \* what the last readCertificateIntoContext did
    otherEstablished \* a second context of the process holds a connection

vars == << pc, args, returnStatus, setupStatus, tcpSocket, sslContext, openSockets,
           tokenSessions, mutexHooks, established, calls, firstFailure, hs, sig, io,
           load, otherEstablished >>

-----------------------------------------------------------------------------
(* Bounds of the model.                                                    *)

\* Number of distinct socket handles the transport can hand out.
MaxSockets == 1

\* Number of distinct session handles the token can hand out.
MaxSessions == 1

\* Number of handshake step results the retry loop keeps on record.
MaxHandshakeLog == 2

\* Number of different hash contents tried per hash length.
MaxHashSeeds == 2

-----------------------------------------------------------------------------
(* Program constants.                                                      *)

\* mbed TLS result codes compared against in the handshake loop, in
\* Disconnect and in recv / send.
MBEDTLS_ERR_SSL_WANT_READ == -26880

MBEDTLS_ERR_SSL_WANT_WRITE == -26752

MBEDTLS_ERR_SSL_TIMEOUT == -26624

\* Engine results the code gives no name to (MBEDTLS_ERR_SSL_CONN_EOF, -1).
OtherEngineErrors == { -29184, -1 }

\* rsa_min_bitlen of mbedtls_x509_crt_profile_default.
DefaultRsaMinBitlen == 2048

\* rsa_min_bitlen installed for the allow-listed demo endpoint.
RelaxedRsaMinBitlen == 1024

\* sizeof( xToBeSigned )
ToBeSignedSize == 256

\* pkcs11RSA_SIGNATURE_INPUT_LENGTH
pkcs11RSA_SIGNATURE_INPUT_LENGTH == 51

\* pkcs11ECDSA_P256_SIGNATURE_LENGTH
pkcs11ECDSA_P256_SIGNATURE_LENGTH == 64

\* Number of hash bytes vAppendSHA256AlgorithmIdentifierSequence copies.
pkcs11SHA256_DIGEST_LENGTH == 32

\* CK_INVALID_HANDLE
CK_INVALID_HANDLE == 0

\* FREERTOS_INVALID_SOCKET is the all-ones pointer.
FREERTOS_INVALID_SOCKET == -1

\* tcpSocket of a context before its first use: zeroed, or set to the invalid
\* handle by the caller.  Neither is the handle of an open socket.
InitialSockets == { 0, FREERTOS_INVALID_SOCKET }

\* PKCS #11 return values (CK_RV).  CKR_OK and CK_INVALID_HANDLE are the
\* same number, as in pkcs11t.h.
CKR_OK == 0

CKR_HOST_MEMORY == 2

CKR_FUNCTION_FAILED == 6

CKR_ARGUMENTS_BAD == 7

CKR_ATTRIBUTE_VALUE_INVALID == 19

CKR_DEVICE_ERROR == 48

CKR_OBJECT_HANDLE_INVALID == 130

CKR_SESSION_HANDLE_INVALID == 179

\* Key types and mechanisms.
CKK_RSA == "CKK_RSA"

CKK_EC == "CKK_EC"

CKK_AES == "CKK_AES"

CKM_RSA_PKCS == "CKM_RSA_PKCS"

CKM_ECDSA == "CKM_ECDSA"

\* TlsTransportStatus_t
TLS_TRANSPORT_SUCCESS == "TLS_TRANSPORT_SUCCESS"

TLS_TRANSPORT_INVALID_PARAMETER == "TLS_TRANSPORT_INVALID_PARAMETER"

TLS_TRANSPORT_INSUFFICIENT_MEMORY == "TLS_TRANSPORT_INSUFFICIENT_MEMORY"

TLS_TRANSPORT_INVALID_CREDENTIALS == "TLS_TRANSPORT_INVALID_CREDENTIALS"

TLS_TRANSPORT_HANDSHAKE_FAILED == "TLS_TRANSPORT_HANDSHAKE_FAILED"

TLS_TRANSPORT_INTERNAL_ERROR == "TLS_TRANSPORT_INTERNAL_ERROR"

TLS_TRANSPORT_CONNECT_FAILURE == "TLS_TRANSPORT_CONNECT_FAILURE"

-----------------------------------------------------------------------------
(* Inputs.                                                                 *)

NULL == "NULL"

\* Host names are sequences of characters; a NULL pointer is the flag hostNull.
LegacyHostName ==
    << "t","e","s","t",".","m","o","s","q","u","i","t","t","o",".","o","r","g" >>

HostNames ==
    { LegacyHostName,
      << >>,
      << "t","e","s","t" >>,
      LegacyHostName \o << "x" >>,
      << "a",".","b" >> }

\* The trust anchor handed in: no pointer, bytes the engine's certificate
\* parser rejects, bytes it accepts.
RootCaKinds == { NULL, "malformed", "valid" }

ConnectArgs ==
    [ ctxNull : BOOLEAN,
      hostNull : BOOLEAN,
      pHostName : HostNames,
      credsNull : BOOLEAN,
      pRootCa : RootCaKinds,
      alpn : BOOLEAN,
      disableSni : BOOLEAN ]

\* A NULL pointer has no content: one representative is kept for a NULL
\* host name and for NULL credentials.
CanonicalArgs ==
    { a \in ConnectArgs :
        /\ a.hostNull => a.pHostName = << >>
        /\ a.credsNull => ( a.pRootCa = NULL /\ ~a.alpn /\ ~a.disableSni ) }

NoArgs ==
    [ ctxNull |-> FALSE, hostNull |-> TRUE, pHostName |-> << >>, credsNull |-> TRUE,
      pRootCa |-> NULL, alpn |-> FALSE, disableSni |-> FALSE ]

SocketHandles == 1..MaxSockets

SessionHandles == 1..MaxSessions

-----------------------------------------------------------------------------
(* The SSL context and the collaborators' objects.                         *)

\* SSLContext_t before the first sslContextInit: nothing is initialised.
FreshSslContext ==
    [ config |-> "uninit", authmode |-> "none", rngBound |-> FALSE,
      profileBound |-> FALSE, caChainSet |-> FALSE, ownCertSet |-> FALSE,
      alpnSet |-> FALSE,
      rootCa |-> "uninit", clientCert |-> "uninit",
      context |-> "uninit", bioSet |-> FALSE, hostnameSet |-> FALSE,
      rsaMinBitlen |-> 0,
      xP11Session |-> CK_INVALID_HANDLE, functionList |-> FALSE,
      xP11PrivateKey |-> CK_INVALID_HANDLE, xKeyType |-> "none",
      privKeyBound |-> FALSE ]

NoHs == [ n |-> 0, log |-> << >>, last |-> 0 ]

NoSig ==
    [ called |-> FALSE, ret |-> 0, xResult |-> CKR_OK, keyType |-> "none",
      hash |-> << >>, xHashLen |-> 0, copied |-> 0,
      mech |-> "none", tokenCalls |-> << >>,
      signInitKey |-> CK_INVALID_HANDLE, signInitMech |-> "none",
      signInitRv |-> << >>, signRv |-> << >>,
      toBeSigned |-> << >>, toBeSignedLen |-> 0,
      tokenSig |-> << >>, pucSig |-> << >>, sigLen |-> 0, converted |-> FALSE ]

\* sent: the byte count the last send on this connection returned.
NoIo == [ op |-> "none", engine |-> 0, ret |-> 0, sent |-> 0 ]

\* Before the first readCertificateIntoContext of a call: no size probed, no
\* buffer asked for, nothing filled or parsed.
NoLoad ==
    [ called |-> FALSE, xResult |-> CKR_OK, ulValueLen |-> 0,
      mallocSize |-> << >>, fillLen |-> << >>, parseLen |-> << >>,
      results |-> << >> ]

-----------------------------------------------------------------------------
(* Helpers.                                                                *)

\* An int cast to CK_RV (unsigned long, 32 bits on the target) keeps all of its
\* bits: the CK_RV is written as the int with the same bits, so that 0 is
\* CKR_OK and nothing else is.
ToCkRv(v) == v

\* The step result is recorded as the stage's failure when no earlier stage
\* of the call has failed.
NoteFailure(stage, failed) ==
    IF failed /\ firstFailure = "none" THEN stage ELSE firstFailure

\* Character i of a C string: the terminator follows the last character.
CharAt(s, i) == IF i <= Len(s) THEN s[i] ELSE "NUL"

\* strncmp( s1, s2, n ) from character i on: 0 when the strings agree on the
\* characters i..n, or up to a common terminator; 1 when they differ.
RECURSIVE StrncmpFrom(_, _, _, _)
StrncmpFrom(s1, s2, i, n) ==
    IF i > n THEN 0
    ELSE IF CharAt(s1, i) # CharAt(s2, i) THEN 1
    ELSE IF CharAt(s1, i) = "NUL" THEN 0
    ELSE StrncmpFrom(s1, s2, i + 1, n)

strncmp(s1, s2, n) == StrncmpFrom(s1, s2, 1, n)

-----------------------------------------------------------------------------
(* sslContextInit and sslContextFree.                                      *)

\* The four mbed TLS init calls of sslContextInit and C_GetFunctionList.
sslContextInitObjects(ctx) ==
    [ ctx EXCEPT !.config = "init", !.authmode = "none", !.rngBound = FALSE,
                 !.profileBound = FALSE, !.caChainSet = FALSE,
                 !.ownCertSet = FALSE, !.alpnSet = FALSE,
                 !.rootCa = "empty", !.clientCert = "empty",
                 !.context = "init", !.bioSet = FALSE, !.hostnameSet = FALSE,
                 !.functionList = TRUE ]

\* The four mbed TLS free calls of sslContextFree; the session handle and the
\* key fields keep their values.
sslContextFreeObjects(ctx) ==
    [ ctx EXCEPT !.context = "freed", !.bioSet = FALSE, !.hostnameSet = FALSE,
                 !.rootCa = "freed", !.clientCert = "freed",
                 !.config = "freed", !.authmode = "none", !.rngBound = FALSE,
                 !.profileBound = FALSE, !.caChainSet = FALSE,
                 !.ownCertSet = FALSE, !.alpnSet = FALSE ]

\* C_CloseSession( xP11Session ): the token closes that session; a handle
\* that names no open session closes nothing.
SessionsAfterClose(sessions, h) == sessions \ { h }

\* The calls of sslContextInit; openSession names the outcome of
\* xInitializePkcs11Session.
sslContextInitCalls(openSession) ==
    << "mbedtls_ssl_config_init", "mbedtls_x509_crt_init:rootCa",
       "mbedtls_x509_crt_init:clientCert", "mbedtls_ssl_init",
       openSession, "C_GetFunctionList" >>

sslContextFreeCalls ==
    << "mbedtls_ssl_free", "mbedtls_x509_crt_free:rootCa",
       "mbedtls_x509_crt_free:clientCert", "mbedtls_ssl_config_free",
       "C_CloseSession" >>

-----------------------------------------------------------------------------
(* TLS_FreeRTOS_Connect, up to the call of tlsSetup.                       *)

\* A parameter check without the pRootCa test.
ValidateParameters_NoRootCaCheck(a) ==
    IF a.ctxNull \/ a.hostNull \/ a.credsNull
    THEN TLS_TRANSPORT_INVALID_PARAMETER
    ELSE TLS_TRANSPORT_SUCCESS

\* The parameter check at the head of TLS_FreeRTOS_Connect.
ValidateParameters(a) ==
    IF a.ctxNull \/ a.hostNull \/ a.credsNull
    THEN TLS_TRANSPORT_INVALID_PARAMETER
    ELSE IF a.pRootCa = NULL
         THEN TLS_TRANSPORT_INVALID_PARAMETER
         ELSE TLS_TRANSPORT_SUCCESS

\* A caller starts TLS_FreeRTOS_Connect on a context that holds no
\* established connection; the parameters are checked.
Connect_Validate ==
    /\ pc = "idle"
    /\ ~established
    /\ \E a \in CanonicalArgs :
        /\ args' = a
        /\ returnStatus' = ValidateParameters(a)
        /\ firstFailure' =
             IF ValidateParameters(a) # TLS_TRANSPORT_SUCCESS
             THEN "validate" ELSE "none"
    /\ setupStatus' = TLS_TRANSPORT_SUCCESS
    /\ calls' = << >>
    /\ hs' = NoHs
    /\ sig' = NoSig
    /\ io' = NoIo
    /\ pc' = "c_socket"
    /\ UNCHANGED << tcpSocket, sslContext, openSockets, tokenSessions,
                    mutexHooks, established >>
    /\ load' = NoLoad
    /\ UNCHANGED otherEstablished

\* Status after Sockets_Connect returned socketStatus.
SocketConnectStatus(socketStatus) ==
    IF socketStatus # 0 THEN TLS_TRANSPORT_CONNECT_FAILURE
    ELSE TLS_TRANSPORT_SUCCESS

\* "Establish a TCP connection with the server."  Sockets_Connect stores a
\* handle in the context only when it succeeds.
Connect_Socket ==
    /\ pc = "c_socket"
    /\ pc' = "c_init"
    /\ IF returnStatus = TLS_TRANSPORT_SUCCESS
       THEN /\ calls' = Append(calls, "Sockets_Connect")
            /\ \/ \E h \in SocketHandles \ openSockets :
                    /\ tcpSocket' = h
                    /\ openSockets' = openSockets \cup { h }
                    /\ returnStatus' = SocketConnectStatus(0)
                    /\ firstFailure' = NoteFailure("connect", FALSE)
               \/ /\ returnStatus' = SocketConnectStatus(-1)
                  /\ firstFailure' = NoteFailure("connect", TRUE)
                  /\ UNCHANGED << tcpSocket, openSockets >>
       ELSE UNCHANGED << calls, tcpSocket, openSockets, returnStatus, firstFailure >>
    /\ UNCHANGED << args, setupStatus, sslContext, tokenSessions, mutexHooks,
                    established, hs, sig, io >>
    /\ UNCHANGED << load, otherEstablished >>

\* initMbedtls: installs the threading callbacks and always reports success.
initMbedtls == TLS_TRANSPORT_SUCCESS

\* "Initialize mbedtls."
Connect_InitMbedtls ==
    /\ pc = "c_init"
    /\ pc' = "c_setup"
    /\ IF returnStatus = TLS_TRANSPORT_SUCCESS
       THEN /\ mutexHooks' = TRUE
            /\ calls' = Append(calls, "mbedtls_threading_set_alt")
            /\ returnStatus' = initMbedtls
       ELSE UNCHANGED << mutexHooks, calls, returnStatus >>
    /\ UNCHANGED << args, setupStatus, tcpSocket, sslContext, openSockets,
                    tokenSessions, established, firstFailure, hs, sig, io >>
    /\ UNCHANGED << load, otherEstablished >>

\* "Perform TLS handshake.": tlsSetup is entered only on success so far.
Connect_TlsSetup ==
    /\ pc = "c_setup"
    /\ pc' = IF returnStatus = TLS_TRANSPORT_SUCCESS THEN "s_init" ELSE "c_cleanup"
    /\ UNCHANGED << args, returnStatus, setupStatus, tcpSocket, sslContext,
                    openSockets, tokenSessions, mutexHooks, established, calls,
                    firstFailure, hs, sig, io >>
    /\ UNCHANGED << load, otherEstablished >>

-----------------------------------------------------------------------------
(* tlsSetup.                                                               *)

\* Head of tlsSetup: sslContextInit.  xInitializePkcs11Session stores a
\* session handle only when it opens one; its result is not looked at.
tlsSetup_Init ==
    /\ pc = "s_init"
    /\ pc' = "s_defaults"
    /\ setupStatus' = TLS_TRANSPORT_SUCCESS
    /\ \/ \E h \in SessionHandles \ tokenSessions :
            /\ sslContext' = [ sslContextInitObjects(sslContext)
                                 EXCEPT !.xP11Session = h ]
            /\ tokenSessions' = tokenSessions \cup { h }
            /\ calls' = calls \o sslContextInitCalls("xInitializePkcs11Session")
       \/ /\ sslContext' = sslContextInitObjects(sslContext)
          /\ UNCHANGED tokenSessions
          /\ calls' = calls \o sslContextInitCalls("xInitializePkcs11Session:failed")
    /\ UNCHANGED << args, returnStatus, tcpSocket, openSockets, mutexHooks,
                    established, firstFailure, hs, sig, io >>
    /\ UNCHANGED << load, otherEstablished >>

\* Results mbedtls_ssl_config_defaults can hand back
\* (0 or MBEDTLS_ERR_MPI_ALLOC_FAILED).
ConfigDefaultsResults == { 0, -16 }

\* Classification of a mbedtls_ssl_config_defaults error.
ConfigDefaultsStatus(mbedtlsError) ==
    IF mbedtlsError # 0 THEN TLS_TRANSPORT_INSUFFICIENT_MEMORY
    ELSE TLS_TRANSPORT_SUCCESS

\* mbedtls_ssl_config_defaults.
tlsSetup_Defaults ==
    /\ pc = "s_defaults"
    /\ pc' = "s_profile"
    /\ calls' = Append(calls, "mbedtls_ssl_config_defaults")
    /\ \E mbedtlsError \in ConfigDefaultsResults :
        /\ setupStatus' = ConfigDefaultsStatus(mbedtlsError)
        /\ sslContext' =
             IF mbedtlsError = 0
             THEN [ sslContext EXCEPT !.config = "defaults" ]
             ELSE sslContext
        /\ firstFailure' = NoteFailure("defaults", mbedtlsError # 0)
    /\ UNCHANGED << args, returnStatus, tcpSocket, openSockets, tokenSessions,
                    mutexHooks, established, hs, sig, io >>
    /\ UNCHANGED << load, otherEstablished >>

\* rsa_min_bitlen of the certificate profile installed for pHostName.
CertProfileRsaMinBitlen(pHostName) ==
    IF strncmp(pHostName, LegacyHostName, Len(pHostName)) = 0
    THEN RelaxedRsaMinBitlen
    ELSE DefaultRsaMinBitlen

\* Results mbedtls_x509_crt_parse hands back for a buffer: 0 when it parses,
\* a negative error or the positive number of certificates that failed.
X509ParseResults(kind) ==
    IF kind = "valid" THEN { 0 } ELSE { -8576, 1 }

\* A root CA check that takes only negative parser results for errors.
RootCaParseStatus_NegativeOnly(mbedtlsError) ==
    IF mbedtlsError < 0 THEN TLS_TRANSPORT_INVALID_CREDENTIALS
    ELSE TLS_TRANSPORT_SUCCESS

\* Classification of a root CA parse error.
RootCaParseStatus(mbedtlsError) ==
    IF mbedtlsError # 0 THEN TLS_TRANSPORT_INVALID_CREDENTIALS
    ELSE TLS_TRANSPORT_SUCCESS

\* Certificate profile, authmode, RNG and the root CA.
tlsSetup_Profile ==
    /\ pc = "s_profile"
    /\ pc' = "s_keys"
    /\ IF setupStatus = TLS_TRANSPORT_SUCCESS
       THEN \E mbedtlsError \in X509ParseResults(args.pRootCa) :
                /\ calls' = calls \o << "mbedtls_ssl_conf_authmode", "mbedtls_ssl_conf_rng",
                                        "mbedtls_ssl_conf_cert_profile",
                                        "mbedtls_x509_crt_parse:rootCa" >>
                     \o ( IF mbedtlsError = 0
                          THEN << "mbedtls_ssl_conf_ca_chain" >> ELSE << >> )
                /\ setupStatus' = RootCaParseStatus(mbedtlsError)
                /\ firstFailure' = NoteFailure("rootCa", mbedtlsError # 0)
                /\ sslContext' =
                     [ sslContext EXCEPT
                         !.rsaMinBitlen = CertProfileRsaMinBitlen(args.pHostName),
                         !.authmode = "MBEDTLS_SSL_VERIFY_REQUIRED",
                         !.rngBound = TRUE,
                         !.profileBound = TRUE,
                         !.rootCa = IF mbedtlsError = 0 THEN "parsed" ELSE @,
                         !.caChainSet = ( mbedtlsError = 0 ) ]
       ELSE UNCHANGED << calls, setupStatus, firstFailure, sslContext >>
    /\ UNCHANGED << args, returnStatus, tcpSocket, openSockets, tokenSessions,
                    mutexHooks, established, hs, sig, io >>
    /\ UNCHANGED << load, otherEstablished >>

-----------------------------------------------------------------------------
(* The token, as initializeClientKeys and readCertificateIntoContext see   *)
(* it.  A call that names a session which is not open fails, and so does   *)
(* an attribute read of the invalid object handle.                         *)

TokenResults == { CKR_OK, CKR_DEVICE_ERROR }

SessionResults(sessionOpen) ==
    IF sessionOpen THEN TokenResults ELSE { CKR_SESSION_HANDLE_INVALID }

\* Object handles the token hands out for the labelled objects.
ObjectHandles == { 1, 2 }

FoundHandles == ObjectHandles \cup { CK_INVALID_HANDLE }

AttributeResults(sessionOpen, handle) ==
    IF ~sessionOpen THEN { CKR_SESSION_HANDLE_INVALID }
    ELSE IF handle = CK_INVALID_HANDLE THEN { CKR_OBJECT_HANDLE_INVALID }
    ELSE TokenResults

KeyTypes == { CKK_RSA, CKK_EC, CKK_AES }

-----------------------------------------------------------------------------
(* initializeClientKeys.                                                   *)

\* The value assigned to xResult when the private key handle is invalid.
KeyNotFoundResult == CK_INVALID_HANDLE

\* The function, step by step as the code runs it, for the token results e.
\* Yields the result, the context, and the calls made.
initializeClientKeys(ctx, e) ==
    LET r1 == e.slotCountRv
        r2 == IF r1 = CKR_OK
              THEN ( IF e.mallocOk THEN CKR_OK ELSE CKR_HOST_MEMORY )
              ELSE r1
        pxSlotIds == ( r1 = CKR_OK /\ e.mallocOk )
        r3 == IF r2 = CKR_OK THEN e.slotListRv ELSE r2
        r4 == IF r3 = CKR_OK THEN e.loginRv ELSE r3
        r5 == IF r4 = CKR_OK THEN e.findRv ELSE r4
        key == IF r4 = CKR_OK
               THEN ( IF e.findRv = CKR_OK THEN e.keyHandle ELSE CK_INVALID_HANDLE )
               ELSE ctx.xP11PrivateKey
        r6 == IF r5 = CKR_OK /\ key = CK_INVALID_HANDLE
              THEN KeyNotFoundResult ELSE r5
        r7 == IF r6 = CKR_OK THEN e.attrRv ELSE r6
        keyType == IF r6 = CKR_OK /\ e.attrRv = CKR_OK THEN e.keyType
                   ELSE ctx.xKeyType
        r8 == IF r7 = CKR_OK
              THEN ( IF keyType \in { CKK_RSA, CKK_EC } THEN CKR_OK
                     ELSE CKR_ATTRIBUTE_VALUE_INVALID )
              ELSE r7
    IN  [ xResult |-> r8,
          ctx |-> [ ctx EXCEPT !.xP11PrivateKey = key,
                               !.xKeyType = keyType,
                               !.privKeyBound = IF r8 = CKR_OK THEN TRUE ELSE @ ],
          calls |->
               << "C_GetSlotList:count" >>
            \o ( IF r1 = CKR_OK
                 THEN << IF e.mallocOk THEN "pvPortMalloc:slots"
                         ELSE "pvPortMalloc:slots:NULL" >> ELSE << >> )
            \o ( IF r2 = CKR_OK THEN << "C_GetSlotList:list" >> ELSE << >> )
            \o ( IF r3 = CKR_OK THEN << "C_Login" >> ELSE << >> )
            \o ( IF r4 = CKR_OK
                 THEN << "xFindObjectWithLabelAndClass:key" >> ELSE << >> )
            \o ( IF r6 = CKR_OK
                 THEN << IF key = CK_INVALID_HANDLE
                         THEN "C_GetAttributeValue:keyType:invalidHandle"
                         ELSE "C_GetAttributeValue:keyType" >> ELSE << >> )
            \o ( IF r8 = CKR_OK THEN << "mbedtls_pk_info_from_type" >> ELSE << >> )
            \o << IF pxSlotIds THEN "vPortFree:slots" ELSE "vPortFree:NULL" >> ]

\* The token results initializeClientKeys can meet; the result of a call the
\* function does not reach is pinned to one value.
KeyEnvs(sessionOpen) ==
    { e \in [ slotCountRv : TokenResults, mallocOk : BOOLEAN,
              slotListRv : TokenResults, loginRv : SessionResults(sessionOpen),
              findRv : SessionResults(sessionOpen), keyHandle : FoundHandles,
              attrRv : TokenResults \cup { CKR_OBJECT_HANDLE_INVALID,
                                           CKR_SESSION_HANDLE_INVALID },
              keyType : KeyTypes ] :
        LET ok1 == e.slotCountRv = CKR_OK
            ok2 == ok1 /\ e.mallocOk
            ok3 == ok2 /\ e.slotListRv = CKR_OK
            ok4 == ok3 /\ e.loginRv = CKR_OK
            ok5 == ok4 /\ e.findRv = CKR_OK
            ok7 == ok5 /\ e.attrRv = CKR_OK
        IN  /\ ~ok1 => e.mallocOk
            /\ ~ok2 => e.slotListRv = CKR_OK
            /\ ~ok3 => e.loginRv \in { CKR_OK, CKR_SESSION_HANDLE_INVALID }
            /\ ~ok4 => e.findRv \in { CKR_OK, CKR_SESSION_HANDLE_INVALID }
            /\ ~ok5 => e.keyHandle = CK_INVALID_HANDLE
            /\ e.keyHandle \in { CK_INVALID_HANDLE, 1 }
            /\ e.attrRv \in AttributeResults(sessionOpen, e.keyHandle)
            /\ ~ok5 => e.attrRv \in { CKR_OK, CKR_OBJECT_HANDLE_INVALID,
                                     CKR_SESSION_HANDLE_INVALID }
            /\ ~ok7 => e.keyType = CKK_RSA }

\* A key setup whose failure is only logged.
ClientKeysStatus_Ignored(xResult) == TLS_TRANSPORT_SUCCESS

\* Classification of an initializeClientKeys result.
ClientKeysStatus(xResult) ==
    IF xResult # CKR_OK THEN TLS_TRANSPORT_INVALID_CREDENTIALS
    ELSE TLS_TRANSPORT_SUCCESS

\* "Setup the client private key."
tlsSetup_ClientKeys ==
    /\ pc = "s_keys"
    /\ pc' = "s_cert"
    /\ IF setupStatus = TLS_TRANSPORT_SUCCESS
       THEN \E e \in KeyEnvs(sslContext.xP11Session \in tokenSessions) :
              LET r == initializeClientKeys(sslContext, e)
              IN  /\ sslContext' = r.ctx
                  /\ calls' = calls \o r.calls
                  /\ setupStatus' = ClientKeysStatus(r.xResult)
                  /\ firstFailure' = NoteFailure("clientKey", r.xResult # CKR_OK)
       ELSE UNCHANGED << sslContext, calls, setupStatus, firstFailure >>
    /\ UNCHANGED << args, returnStatus, tcpSocket, openSockets, tokenSessions,
                    mutexHooks, established, hs, sig, io >>
    /\ UNCHANGED << load, otherEstablished >>

-----------------------------------------------------------------------------
(* readCertificateIntoContext.                                             *)

\* Sizes the zero-length probe can report for the certificate value.
CertSizes == { 4, 7 }

\* A function that returns early on failure, before the free.
CertBufferFreed_OnSuccessOnly(xResult) == xResult = CKR_OK

\* Whether vPortFree( xTemplate.pValue ) is reached: "Free memory." stands
\* after the last guarded block, on every path.
CertBufferFreed(xResult) == TRUE

\* A fill read that is issued whether or not the buffer was allocated.
FillReadIssued_Always(xResult) == TRUE

\* Whether the second C_GetAttributeValue is issued: the guard of "Export
\* the certificate."
FillReadIssued(xResult) == xResult = CKR_OK

\* The function, step by step, for the token, heap and parser results e.
readCertificateIntoContext(e) ==
    LET r1 == e.findRv
        xCertObj == IF e.findRv = CKR_OK THEN e.certHandle ELSE CK_INVALID_HANDLE
        r2 == IF r1 = CKR_OK /\ xCertObj = CK_INVALID_HANDLE
              THEN CKR_OBJECT_HANDLE_INVALID ELSE r1
        r3 == IF r2 = CKR_OK THEN e.probeRv ELSE r2
        ulValueLen == IF r2 = CKR_OK /\ e.probeRv = CKR_OK THEN e.size ELSE 0
        r4 == IF r3 = CKR_OK
              THEN ( IF e.mallocOk THEN CKR_OK ELSE CKR_HOST_MEMORY )
              ELSE r3
        pValue == ( r3 = CKR_OK /\ e.mallocOk )
        fill == FillReadIssued(r4)
        r5 == IF fill THEN e.fillRv ELSE r4
        r6 == IF r5 = CKR_OK THEN ToCkRv(e.parseErr) ELSE r5
    IN  [ xResult |-> r6,
          parsed |-> ( r5 = CKR_OK /\ e.parseErr = 0 ),
          ulValueLen |-> ulValueLen,
          load |->
            [ called |-> TRUE, xResult |-> r6, ulValueLen |-> ulValueLen,
              mallocSize |-> IF r3 = CKR_OK THEN << ulValueLen >> ELSE << >>,
              fillLen |-> IF fill THEN << ulValueLen >> ELSE << >>,
              parseLen |-> IF r5 = CKR_OK THEN << ulValueLen >> ELSE << >>,
              results |->
                   << r2 >>
                \o ( IF r2 = CKR_OK THEN << e.probeRv >> ELSE << >> )
                \o ( IF r3 = CKR_OK THEN << r4 >> ELSE << >> )
                \o ( IF fill THEN << e.fillRv >> ELSE << >> )
                \o ( IF r5 = CKR_OK THEN << ToCkRv(e.parseErr) >> ELSE << >> ) ],
          calls |->
               << "xFindObjectWithLabelAndClass:cert" >>
            \o ( IF r2 = CKR_OK THEN << "C_GetAttributeValue:probe" >> ELSE << >> )
            \o ( IF r3 = CKR_OK
                 THEN << IF e.mallocOk THEN "pvPortMalloc:cert"
                         ELSE "pvPortMalloc:cert:NULL" >> ELSE << >> )
            \o ( IF fill THEN << "C_GetAttributeValue:fill" >> ELSE << >> )
            \o ( IF r5 = CKR_OK
                 THEN << "mbedtls_x509_crt_parse:clientCert" >> ELSE << >> )
            \o ( IF CertBufferFreed(r6)
                 THEN << IF pValue THEN "vPortFree:cert" ELSE "vPortFree:NULL" >>
                 ELSE << >> ) ]

\* The results readCertificateIntoContext can meet; the result of a call the
\* function does not reach is pinned to one value.
CertEnvs(sessionOpen) ==
    { e \in [ findRv : SessionResults(sessionOpen), certHandle : FoundHandles,
              probeRv : TokenResults, size : CertSizes, mallocOk : BOOLEAN,
              fillRv : TokenResults, parseErr : { 0, -8576 } ] :
        LET ok1 == e.findRv = CKR_OK
            ok2 == ok1 /\ e.certHandle # CK_INVALID_HANDLE
            ok3 == ok2 /\ e.probeRv = CKR_OK
            ok4 == ok3 /\ e.mallocOk
            ok5 == ok4 /\ e.fillRv = CKR_OK
        IN  /\ e.certHandle \in { CK_INVALID_HANDLE, 2 }
            /\ ~ok1 => e.certHandle = CK_INVALID_HANDLE
            /\ ~ok2 => e.probeRv = CKR_OK
            /\ ~ok3 => e.size = 4
            /\ ~ok3 => e.mallocOk
            /\ ~ok4 => e.fillRv = CKR_OK
            /\ ~ok5 => e.parseErr = 0 }

\* Classification of a readCertificateIntoContext result.
ClientCertStatus(xResult) ==
    IF xResult # CKR_OK THEN TLS_TRANSPORT_INVALID_CREDENTIALS
    ELSE TLS_TRANSPORT_SUCCESS

\* "Setup the client certificate.": the else branch of the key setup.
tlsSetup_ClientCert ==
    /\ pc = "s_cert"
    /\ pc' = "s_alpn"
    /\ IF setupStatus = TLS_TRANSPORT_SUCCESS
       THEN \E e \in CertEnvs(sslContext.xP11Session \in tokenSessions) :
              LET r == readCertificateIntoContext(e)
              IN  /\ sslContext' =
                       [ sslContext EXCEPT
                           !.clientCert = IF r.parsed THEN "parsed" ELSE @,
                           !.ownCertSet = ( r.xResult = CKR_OK ) ]
                  /\ calls' = calls \o r.calls
                       \o ( IF r.xResult = CKR_OK
                            THEN << "mbedtls_ssl_conf_own_cert" >> ELSE << >> )
                  /\ setupStatus' = ClientCertStatus(r.xResult)
                  /\ load' = r.load
                  /\ firstFailure' = NoteFailure("clientCert", r.xResult # CKR_OK)
       ELSE UNCHANGED << sslContext, calls, setupStatus, firstFailure, load >>
    /\ UNCHANGED << args, returnStatus, tcpSocket, openSockets, tokenSessions,
                    mutexHooks, established, hs, sig, io >>
    /\ UNCHANGED otherEstablished

-----------------------------------------------------------------------------
(* tlsSetup, from the ALPN list to the return.                             *)

\* Results of the engine's configuration calls (0 or an allocation / bad
\* input error).
EngineSetupResults == { 0, -28928 }

\* An engine set-up classification that reports allocation failure.
EngineSetupStatus_AsMemory(mbedtlsError) ==
    IF mbedtlsError # 0 THEN TLS_TRANSPORT_INSUFFICIENT_MEMORY
    ELSE TLS_TRANSPORT_SUCCESS

\* Classification of an ALPN, ssl_setup or set_hostname error.
EngineSetupStatus(mbedtlsError) ==
    IF mbedtlsError # 0 THEN TLS_TRANSPORT_INTERNAL_ERROR
    ELSE TLS_TRANSPORT_SUCCESS

\* "Include an application protocol list in the TLS ClientHello message."
tlsSetup_Alpn ==
    /\ pc = "s_alpn"
    /\ pc' = "s_sslsetup"
    /\ IF setupStatus = TLS_TRANSPORT_SUCCESS /\ args.alpn
       THEN \E mbedtlsError \in EngineSetupResults :
              /\ calls' = Append(calls, "mbedtls_ssl_conf_alpn_protocols")
              /\ setupStatus' = EngineSetupStatus(mbedtlsError)
              /\ firstFailure' = NoteFailure("alpn", mbedtlsError # 0)
              /\ sslContext' = [ sslContext EXCEPT !.alpnSet = ( mbedtlsError = 0 ) ]
       ELSE UNCHANGED << calls, setupStatus, firstFailure, sslContext >>
    /\ UNCHANGED << args, returnStatus, tcpSocket, openSockets, tokenSessions,
                    mutexHooks, established, hs, sig, io >>
    /\ UNCHANGED << load, otherEstablished >>

\* "Initialize the mbed TLS secured connection context." and set the BIO.
tlsSetup_SslSetup ==
    /\ pc = "s_sslsetup"
    /\ pc' = "s_sni"
    /\ IF setupStatus = TLS_TRANSPORT_SUCCESS
       THEN \E mbedtlsError \in EngineSetupResults :
              /\ calls' = calls \o << "mbedtls_ssl_setup" >>
                   \o ( IF mbedtlsError = 0
                        THEN << "mbedtls_ssl_set_bio" >> ELSE << >> )
              /\ setupStatus' = EngineSetupStatus(mbedtlsError)
              /\ firstFailure' = NoteFailure("sslSetup", mbedtlsError # 0)
              /\ sslContext' =
                   IF mbedtlsError = 0
                   THEN [ sslContext EXCEPT !.context = "setup", !.bioSet = TRUE ]
                   ELSE sslContext
       ELSE UNCHANGED << calls, setupStatus, firstFailure, sslContext >>
    /\ UNCHANGED << args, returnStatus, tcpSocket, openSockets, tokenSessions,
                    mutexHooks, established, hs, sig, io >>
    /\ UNCHANGED << load, otherEstablished >>

\* "Enable SNI if requested."
tlsSetup_Sni ==
    /\ pc = "s_sni"
    /\ pc' = "s_handshake"
    /\ IF setupStatus = TLS_TRANSPORT_SUCCESS /\ ~args.disableSni
       THEN \E mbedtlsError \in EngineSetupResults :
              /\ calls' = Append(calls, "mbedtls_ssl_set_hostname")
              /\ setupStatus' = EngineSetupStatus(mbedtlsError)
              /\ firstFailure' = NoteFailure("sni", mbedtlsError # 0)
              /\ sslContext' = [ sslContext EXCEPT !.hostnameSet = ( mbedtlsError = 0 ) ]
       ELSE UNCHANGED << calls, setupStatus, firstFailure, sslContext >>
    /\ UNCHANGED << args, returnStatus, tcpSocket, openSockets, tokenSessions,
                    mutexHooks, established, hs, sig, io >>
    /\ UNCHANGED << load, otherEstablished >>

\* "Perform the TLS handshake.": the loop is entered only on success so far.
tlsSetup_HandshakeEnter ==
    /\ pc = "s_handshake"
    /\ pc' = IF setupStatus = TLS_TRANSPORT_SUCCESS THEN "s_hsloop" ELSE "s_cleanup"
    /\ UNCHANGED << args, returnStatus, setupStatus, tcpSocket, sslContext,
                    openSockets, tokenSessions, mutexHooks, established, calls,
                    firstFailure, hs, sig, io >>
    /\ UNCHANGED << load, otherEstablished >>

\* Results of one mbedtls_ssl_handshake call.
HandshakeResults ==
    { 0, MBEDTLS_ERR_SSL_WANT_READ, MBEDTLS_ERR_SSL_WANT_WRITE,
      MBEDTLS_ERR_SSL_TIMEOUT } \cup OtherEngineErrors

\* A loop condition that also retries when the transport timed out.
HandshakeRetry_AlsoTimeout(mbedtlsError) ==
    \/ mbedtlsError = MBEDTLS_ERR_SSL_WANT_READ
    \/ mbedtlsError = MBEDTLS_ERR_SSL_WANT_WRITE
    \/ mbedtlsError = MBEDTLS_ERR_SSL_TIMEOUT

\* A loop condition that retries on WANT_READ alone.
HandshakeRetry_ReadOnly(mbedtlsError) == mbedtlsError = MBEDTLS_ERR_SSL_WANT_READ

\* The do-while condition of the handshake loop.
HandshakeRetry(mbedtlsError) ==
    \/ mbedtlsError = MBEDTLS_ERR_SSL_WANT_READ
    \/ mbedtlsError = MBEDTLS_ERR_SSL_WANT_WRITE

\* Classification of the result the handshake loop ended with.
HandshakeStatus(mbedtlsError) ==
    IF mbedtlsError # 0 THEN TLS_TRANSPORT_HANDSHAKE_FAILED
    ELSE TLS_TRANSPORT_SUCCESS

\* One pass of the do-while loop: one call of mbedtls_ssl_handshake.
tlsSetup_HandshakeStep ==
    /\ pc = "s_hsloop"
    /\ \E mbedtlsError \in HandshakeResults :
        /\ hs' = [ n |-> IF hs.n < MaxHandshakeLog THEN hs.n + 1 ELSE hs.n,
                   log |-> IF hs.n < MaxHandshakeLog
                           THEN Append(hs.log, mbedtlsError) ELSE hs.log,
                   last |-> mbedtlsError ]
        /\ calls' = IF hs.n < MaxHandshakeLog
                    THEN Append(calls, "mbedtls_ssl_handshake") ELSE calls
        /\ IF HandshakeRetry(mbedtlsError)
           THEN /\ pc' = "s_hsloop"
                /\ UNCHANGED << setupStatus, firstFailure >>
           ELSE /\ pc' = "s_cleanup"
                /\ setupStatus' = HandshakeStatus(mbedtlsError)
                /\ firstFailure' = NoteFailure("handshake", mbedtlsError # 0)
    /\ sig' = NoSig
    /\ UNCHANGED << args, returnStatus, tcpSocket, sslContext, openSockets,
                    tokenSessions, mutexHooks, established, io >>
    /\ UNCHANGED << load, otherEstablished >>

\* A tlsSetup that releases the context only after a failed handshake.
SetupReleases_HandshakeOnly(status) == status = TLS_TRANSPORT_HANDSHAKE_FAILED

\* Whether tlsSetup releases the SSL context before it returns.
SetupReleases(status) == status # TLS_TRANSPORT_SUCCESS

\* The tail of tlsSetup: sslContextFree on failure, then the return into
\* TLS_FreeRTOS_Connect, which stores the status.
tlsSetup_Return ==
    /\ pc = "s_cleanup"
    /\ pc' = "c_cleanup"
    /\ returnStatus' = setupStatus
    /\ IF SetupReleases(setupStatus)
       THEN /\ sslContext' = sslContextFreeObjects(sslContext)
            /\ tokenSessions' = SessionsAfterClose(tokenSessions, sslContext.xP11Session)
            /\ calls' = calls \o sslContextFreeCalls
       ELSE UNCHANGED << sslContext, tokenSessions, calls >>
    /\ sig' = NoSig
    /\ UNCHANGED << args, setupStatus, tcpSocket, openSockets, mutexHooks,
                    established, firstFailure, hs, io >>
    /\ UNCHANGED << load, otherEstablished >>

-----------------------------------------------------------------------------
(* TLS_FreeRTOS_Connect: clean up and return.                              *)

\* A clean-up block that closes the socket only after a connect failure.
ConnectClosesSocket_ConnectFailureOnly(status, ctxNull, sock) ==
    /\ status = TLS_TRANSPORT_CONNECT_FAILURE
    /\ ~ctxNull
    /\ sock # FREERTOS_INVALID_SOCKET

\* Whether the "Clean up on failure" block calls FreeRTOS_closesocket.
ConnectClosesSocket(status, ctxNull, sock) ==
    /\ status # TLS_TRANSPORT_SUCCESS
    /\ ~ctxNull
    /\ sock # FREERTOS_INVALID_SOCKET

\* FreeRTOS_closesocket / Sockets_Disconnect on a handle: the transport
\* closes that socket.
SocketsAfterClose(sockets, sock) == sockets \ { sock }

Connect_Return ==
    /\ pc = "c_cleanup"
    /\ pc' = "idle"
    /\ IF ConnectClosesSocket(returnStatus, args.ctxNull, tcpSocket)
       THEN /\ openSockets' = SocketsAfterClose(openSockets, tcpSocket)
            /\ calls' = Append(calls,
                               IF tcpSocket \in openSockets
                               THEN "FreeRTOS_closesocket"
                               ELSE "FreeRTOS_closesocket:notOpen")
       ELSE UNCHANGED << openSockets, calls >>
    /\ established' = ( returnStatus = TLS_TRANSPORT_SUCCESS )
    /\ UNCHANGED << args, returnStatus, setupStatus, tcpSocket, sslContext,
                    tokenSessions, mutexHooks, firstFailure, hs, sig, io >>
    /\ UNCHANGED << load, otherEstablished >>

-----------------------------------------------------------------------------
(* TLS_FreeRTOS_Disconnect.                                                *)

\* Results of mbedtls_ssl_close_notify.
CloseNotifyResults ==
    { 0, MBEDTLS_ERR_SSL_WANT_READ, MBEDTLS_ERR_SSL_WANT_WRITE }
      \cup OtherEngineErrors

\* A disconnect that returns right after a close-notify error.
TLS_FreeRTOS_Disconnect_StopOnError(tlsStatus, sock, sockets, ctx, sessions) ==
    IF tlsStatus \in { 0, MBEDTLS_ERR_SSL_WANT_READ, MBEDTLS_ERR_SSL_WANT_WRITE }
    THEN [ openSockets |-> SocketsAfterClose(sockets, sock),
           sslContext |-> sslContextFreeObjects(ctx),
           tokenSessions |-> SessionsAfterClose(sessions, ctx.xP11Session),
           mutexHooks |-> FALSE,
           calls |-> << "mbedtls_ssl_close_notify", "Sockets_Disconnect" >>
                       \o sslContextFreeCalls \o << "mbedtls_threading_free_alt" >> ]
    ELSE [ openSockets |-> sockets, sslContext |-> ctx, tokenSessions |-> sessions,
           mutexHooks |-> TRUE, calls |-> << "mbedtls_ssl_close_notify" >> ]

\* What the function does after close-notify returned tlsStatus: the status
\* only selects the log line.
TLS_FreeRTOS_Disconnect(tlsStatus, sock, sockets, ctx, sessions) ==
    [ openSockets |-> SocketsAfterClose(sockets, sock),
      sslContext |-> sslContextFreeObjects(ctx),
      tokenSessions |-> SessionsAfterClose(sessions, ctx.xP11Session),
      mutexHooks |-> FALSE,
      calls |-> << "mbedtls_ssl_close_notify", "Sockets_Disconnect" >>
                  \o sslContextFreeCalls \o << "mbedtls_threading_free_alt" >> ]

\* The caller disconnects an established connection.
Disconnect ==
    /\ pc = "idle"
    /\ established
    /\ \E tlsStatus \in CloseNotifyResults :
         LET r == TLS_FreeRTOS_Disconnect(tlsStatus, tcpSocket, openSockets,
                                          sslContext, tokenSessions)
         IN  /\ openSockets' = r.openSockets
             /\ sslContext' = r.sslContext
             /\ tokenSessions' = r.tokenSessions
             /\ mutexHooks' = r.mutexHooks
             /\ calls' = r.calls
             /\ io' = [ op |-> "disconnect", engine |-> tlsStatus, ret |-> 0, sent |-> 0 ]
    /\ established' = FALSE
    /\ sig' = NoSig
    /\ UNCHANGED << pc, args, returnStatus, setupStatus, tcpSocket,
                    firstFailure, hs >>
    /\ load' = NoLoad
    /\ UNCHANGED otherEstablished

-----------------------------------------------------------------------------
(* TLS_FreeRTOS_recv and TLS_FreeRTOS_send.                                *)

\* Results of mbedtls_ssl_read / mbedtls_ssl_write (an int32_t).
EngineIoResults ==
    { MBEDTLS_ERR_SSL_TIMEOUT, MBEDTLS_ERR_SSL_WANT_READ,
      MBEDTLS_ERR_SSL_WANT_WRITE, 0, 1, 2, 16 } \cup OtherEngineErrors

\* A recv that does not treat WANT_WRITE as retryable.
TLS_FreeRTOS_recv_NoWantWrite(tlsStatus) ==
    IF \/ tlsStatus = MBEDTLS_ERR_SSL_TIMEOUT
       \/ tlsStatus = MBEDTLS_ERR_SSL_WANT_READ
    THEN 0
    ELSE tlsStatus

\* Value TLS_FreeRTOS_recv returns for the engine result tlsStatus.
TLS_FreeRTOS_recv(tlsStatus) ==
    IF \/ tlsStatus = MBEDTLS_ERR_SSL_TIMEOUT
       \/ tlsStatus = MBEDTLS_ERR_SSL_WANT_READ
       \/ tlsStatus = MBEDTLS_ERR_SSL_WANT_WRITE
    THEN 0
    ELSE tlsStatus

\* A send that reports a completed write as a status, not as a count.
TLS_FreeRTOS_send_CountAsStatus(tlsStatus) == IF tlsStatus < 0 THEN tlsStatus ELSE 0

\* Value TLS_FreeRTOS_send returns for the engine result tlsStatus.
TLS_FreeRTOS_send(tlsStatus) ==
    IF \/ tlsStatus = MBEDTLS_ERR_SSL_TIMEOUT
       \/ tlsStatus = MBEDTLS_ERR_SSL_WANT_READ
       \/ tlsStatus = MBEDTLS_ERR_SSL_WANT_WRITE
    THEN 0
    ELSE tlsStatus

Recv ==
    /\ pc = "idle"
    /\ established
    /\ \E tlsStatus \in EngineIoResults :
         io' = [ op |-> "recv", engine |-> tlsStatus,
                 ret |-> TLS_FreeRTOS_recv(tlsStatus), sent |-> io.sent ]
    /\ calls' = << "mbedtls_ssl_read" >>
    /\ UNCHANGED << pc, args, returnStatus, setupStatus, tcpSocket, sslContext,
                    openSockets, tokenSessions, mutexHooks, established,
                    firstFailure, hs, sig >>
    /\ load' = NoLoad
    /\ UNCHANGED otherEstablished

Send ==
    /\ pc = "idle"
    /\ established
    /\ \E tlsStatus \in EngineIoResults :
         io' = [ op |-> "send", engine |-> tlsStatus,
                 ret |-> TLS_FreeRTOS_send(tlsStatus),
                 sent |-> IF TLS_FreeRTOS_send(tlsStatus) > 0
                          THEN TLS_FreeRTOS_send(tlsStatus) ELSE 0 ]
    /\ calls' = << "mbedtls_ssl_write" >>
    /\ UNCHANGED << pc, args, returnStatus, setupStatus, tcpSocket, sslContext,
                    openSockets, tokenSessions, mutexHooks, established,
                    firstFailure, hs, sig >>
    /\ load' = NoLoad
    /\ UNCHANGED otherEstablished

-----------------------------------------------------------------------------
(* privateKeySigningCallback.                                              *)

\* pkcs11STUFF_APPENDED_TO_RSA_SIG: the DigestInfo header of a SHA-256 hash.
DigestInfoPrefix ==
    << 48, 49, 48, 13, 6, 9, 96, 134, 72, 1, 101, 3, 4, 2, 1, 5, 0, 4, 32 >>

\* Byte i of what a read through the pointer pucHash yields: the hash, and past
\* its end whatever byte follows it in memory.
MemAt(pucHash, i, garbage) == IF i <= Len(pucHash) THEN pucHash[i] ELSE garbage

\* vAppendSHA256AlgorithmIdentifierSequence( pucHash, xToBeSigned ): takes no
\* length; writes the header, then the 32 bytes found at pucHash.
vAppendSHA256AlgorithmIdentifierSequence(pucHash, garbage) ==
    DigestInfoPrefix
      \o [ i \in 1..pkcs11SHA256_DIGEST_LENGTH |-> MemAt(pucHash, i, garbage) ]

\* One INTEGER of the DER signature: a zero byte goes before a value whose
\* top bit is set.
DerInteger(v) ==
    IF v[1] >= 128 THEN << 2, Len(v) + 1, 0 >> \o v ELSE << 2, Len(v) >> \o v

\* PKI_pkcs11SignatureTombedTLSSignature: R[32] + S[32] becomes
\* SEQUENCE { INTEGER R, INTEGER S }.
PKI_pkcs11SignatureTombedTLSSignature(raw) ==
    LET half == pkcs11ECDSA_P256_SIGNATURE_LENGTH \div 2
        r == DerInteger(SubSeq(raw, 1, half))
        t == DerInteger(SubSeq(raw, half + 1, 2 * half))
    IN  << 48, Len(r) + Len(t) >> \o r \o t

\* "Sanity check buffer length."
SanityCheck(xHashLen) ==
    IF xHashLen > ToBeSignedSize THEN CKR_ARGUMENTS_BAD ELSE CKR_OK

\* xResult after "Format the hash data to be signed.": the RSA branch stores
\* the helper's result, the EC branch leaves xResult alone.
FormatResult(keyType, xResult, appendResult) ==
    IF keyType = CKK_RSA THEN appendResult
    ELSE IF keyType = CKK_EC THEN xResult
    ELSE CKR_ARGUMENTS_BAD

\* xMech.mechanism after the format step.
SignMechanism(keyType) ==
    IF keyType = CKK_RSA THEN CKM_RSA_PKCS
    ELSE IF keyType = CKK_EC THEN CKM_ECDSA
    ELSE "none"

\* A format step that sets the length to the hash length in both branches.
ToBeSignedLen_HashOnly(keyType, xHashLen) ==
    IF keyType \in { CKK_RSA, CKK_EC } THEN xHashLen ELSE ToBeSignedSize

\* xToBeSignedLen after the format step.
ToBeSignedLen(keyType, xHashLen) ==
    IF keyType = CKK_RSA THEN pkcs11RSA_SIGNATURE_INPUT_LENGTH
    ELSE IF keyType = CKK_EC THEN xHashLen
    ELSE ToBeSignedSize

\* Number of bytes the format step writes into xToBeSigned.
BytesCopied(keyType, xHashLen) ==
    IF keyType = CKK_RSA THEN Len(DigestInfoPrefix) + pkcs11SHA256_DIGEST_LENGTH
    ELSE IF keyType = CKK_EC THEN xHashLen
    ELSE 0

\* A length check that rejects only signatures that are too short.
EcLengthCheck_ShortOnly(xResult, sigLen) ==
    IF sigLen < pkcs11ECDSA_P256_SIGNATURE_LENGTH THEN CKR_FUNCTION_FAILED
    ELSE xResult

\* The length check of the EC branch after C_Sign.
EcLengthCheck(xResult, sigLen) ==
    IF sigLen # pkcs11ECDSA_P256_SIGNATURE_LENGTH THEN CKR_FUNCTION_FAILED
    ELSE xResult

\* A C_Sign that is called whatever C_SignInit returned.
SignInvoked_Always(xResult) == TRUE

\* Whether C_Sign is called: the guard after C_SignInit.
SignInvoked(xResult) == xResult = CKR_OK

\* A callback that hands the token's raw signature back in every case.
SignatureOut_Raw(convert, tokenSig) == tokenSig

\* What pucSig holds on return: the conversion rewrites the buffer in place
\* when the EC branch has passed the length check.
SignatureOut(convert, tokenSig) ==
    IF convert THEN PKI_pkcs11SignatureTombedTLSSignature(tokenSig) ELSE tokenSig

\* A return value that carries the token's code.
FinalResult_TokenCode(xResult) == IF xResult # CKR_OK THEN 0 - xResult ELSE 0

\* The value handed back to the engine.
FinalResult(xResult) == IF xResult # CKR_OK THEN -1 ELSE 0

\* The callback, step by step, for the hash pucHash of xHashLen bytes and the
\* token results e.
privateKeySigningCallback(ctx, pucHash, xHashLen, e) ==
    LET keyType == ctx.xKeyType
        r0 == SanityCheck(xHashLen)
        \* the helper reports failure only for a NULL pointer
        r1 == FormatResult(keyType, r0, CKR_OK)
        xToBeSigned ==
            IF keyType = CKK_RSA
            THEN vAppendSHA256AlgorithmIdentifierSequence(pucHash, e.garbage)
            ELSE IF keyType = CKK_EC THEN pucHash
            ELSE << >>
        xToBeSignedLen == ToBeSignedLen(keyType, xHashLen)
        signInit == ( r1 = CKR_OK )
        r2 == IF signInit THEN e.signInitRv ELSE r1
        sign == SignInvoked(r2)
        r3 == IF sign THEN e.signRv ELSE r2
        tokenSig == IF sign /\ e.signRv = CKR_OK THEN e.tokenSig ELSE << >>
        sigLen1 == IF sign
                   THEN ( IF e.signRv = CKR_OK THEN Len(e.tokenSig)
                          ELSE ToBeSignedSize )
                   ELSE 0
        ec == ( r3 = CKR_OK /\ keyType = CKK_EC )
        r4 == IF ec THEN EcLengthCheck(r3, sigLen1) ELSE r3
        convert == ( ec /\ r4 = CKR_OK )
        pucSig == SignatureOut(convert, tokenSig)
    IN  [ called |-> TRUE,
          ret |-> FinalResult(r4),
          xResult |-> r4,
          keyType |-> keyType,
          hash |-> pucHash,
          xHashLen |-> xHashLen,
          copied |-> BytesCopied(keyType, xHashLen),
          mech |-> SignMechanism(keyType),
          tokenCalls |-> ( IF signInit THEN << "C_SignInit" >> ELSE << >> )
                           \o ( IF sign THEN << "C_Sign" >> ELSE << >> ),
          signInitKey |-> IF signInit THEN ctx.xP11PrivateKey ELSE CK_INVALID_HANDLE,
          signInitMech |-> IF signInit THEN SignMechanism(keyType) ELSE "none",
          signInitRv |-> IF signInit THEN << e.signInitRv >> ELSE << >>,
          signRv |-> IF sign THEN << e.signRv >> ELSE << >>,
          toBeSigned |-> IF sign THEN SubSeq(xToBeSigned, 1, xToBeSignedLen)
                         ELSE << >>,
          toBeSignedLen |-> IF sign THEN xToBeSignedLen ELSE 0,
          tokenSig |-> tokenSig,
          pucSig |-> pucSig,
          sigLen |-> IF convert THEN Len(pucSig) ELSE sigLen1,
          converted |-> convert ]

\* Hash lengths the engine may hand in (SHA-1 .. SHA-512, and buffers at and
\* past the size of xToBeSigned).
HashLens == { 20, 32, 48, 64, ToBeSignedSize, ToBeSignedSize + 1 }

\* A hash of len bytes; seed selects the content.
Hash(seed, len) == [ i \in 1..len |-> ( seed * 16 + i * 7 ) % 256 ]

\* Lengths the token may report for a signature.
TokenSigLens == { 63, pkcs11ECDSA_P256_SIGNATURE_LENGTH, 65, 128 }

\* A signature of len bytes from the token; hiR and hiS say whether the top
\* bit of byte 1 and of byte 33 is set.
TokenSig(len, hiR, hiS) ==
    [ i \in 1..len |->
        IF i = 1 THEN ( IF hiR THEN 128 ELSE 127 )
        ELSE IF i = 33 THEN ( IF hiS THEN 255 ELSE 1 )
        ELSE ( i * 5 ) % 256 ]

\* The token results and the memory the callback can meet for a hash of
\* xHashLen bytes; what it does not reach is pinned to one value.
SignEnvs(keyType, xHashLen) ==
    { e \in [ signInitRv : TokenResults, signRv : TokenResults,
              tokenSig : { TokenSig(n, a, b) :
                             n \in TokenSigLens, a \in BOOLEAN, b \in BOOLEAN },
              garbage : { 0, 255 } ] :
        LET reach == FormatResult(keyType, SanityCheck(xHashLen), CKR_OK) = CKR_OK
            ok1 == reach /\ e.signInitRv = CKR_OK
            ok2 == ok1 /\ e.signRv = CKR_OK
        IN  /\ ~reach => e.signInitRv = CKR_OK
            /\ ~ok1 => e.signRv = CKR_OK
            /\ ~ok2 => e.tokenSig = TokenSig(63, FALSE, FALSE)
            /\ ( keyType # CKK_RSA \/ xHashLen >= pkcs11SHA256_DIGEST_LENGTH )
                 => e.garbage = 0 }

\* The engine asks for a signature while the handshake is in progress.
SignCallback ==
    /\ pc = "s_hsloop"
    /\ sslContext.privKeyBound
    /\ \E xHashLen \in HashLens, seed \in 1..MaxHashSeeds :
         \E e \in SignEnvs(sslContext.xKeyType, xHashLen) :
            sig' = privateKeySigningCallback(sslContext, Hash(seed, xHashLen),
                                             xHashLen, e)
    /\ UNCHANGED << pc, args, returnStatus, setupStatus, tcpSocket, sslContext,
                    openSockets, tokenSessions, mutexHooks, established, calls,
                    firstFailure, hs, io >>
    /\ UNCHANGED << load, otherEstablished >>

-----------------------------------------------------------------------------
(* The specification.                                                      *)

\* A caller-owned context before its first use: zeroed, or with the socket
\* field set to the invalid handle.
Init ==
    /\ pc = "idle"
    /\ args = NoArgs
    /\ returnStatus = TLS_TRANSPORT_SUCCESS
    /\ setupStatus = TLS_TRANSPORT_SUCCESS
    /\ tcpSocket \in InitialSockets
    /\ sslContext = FreshSslContext
    /\ openSockets = { }
    /\ tokenSessions = { }
    /\ mutexHooks = FALSE
    /\ established = FALSE
    /\ calls = << >>
    /\ firstFailure = "none"
    /\ hs = NoHs
    /\ sig = NoSig
    /\ io = NoIo
    /\ load = NoLoad
    /\ otherEstablished = FALSE

Next ==
    \/ Connect_Validate
    \/ Connect_Socket
    \/ Connect_InitMbedtls
    \/ Connect_TlsSetup
    \/ tlsSetup_Init
    \/ tlsSetup_Defaults
    \/ tlsSetup_Profile
    \/ tlsSetup_ClientKeys
    \/ tlsSetup_ClientCert
    \/ tlsSetup_Alpn
    \/ tlsSetup_SslSetup
    \/ tlsSetup_Sni
    \/ tlsSetup_HandshakeEnter
    \/ tlsSetup_HandshakeStep
    \/ tlsSetup_Return
    \/ Connect_Return
    \/ Disconnect
    \/ Recv
    \/ Send

Spec == Init /\ [][Next]_vars

-----------------------------------------------------------------------------
(* The signing callback on its own: the engine calls it while               *)
(* mbedtls_ssl_handshake runs, on a context whose setup has bound the key.  *)

\* Token, heap and parser results of a setup in which every call succeeds and
\* the device key has type keyType.
GoodKeyEnv(keyType) ==
    [ slotCountRv |-> CKR_OK, mallocOk |-> TRUE, slotListRv |-> CKR_OK,
      loginRv |-> CKR_OK, findRv |-> CKR_OK, keyHandle |-> 1,
      attrRv |-> CKR_OK, keyType |-> keyType ]

GoodCertEnv ==
    [ findRv |-> CKR_OK, certHandle |-> 2, probeRv |-> CKR_OK, size |-> 4,
      mallocOk |-> TRUE, fillRv |-> CKR_OK, parseErr |-> 0 ]

HandshakeArgs ==
    [ ctxNull |-> FALSE, hostNull |-> FALSE, pHostName |-> << "a", ".", "b" >>,
      credsNull |-> FALSE, pRootCa |-> "valid", alpn |-> FALSE,
      disableSni |-> FALSE ]

\* The SSL context when the first connect of a zeroed context enters the
\* handshake loop.
HandshakeContext(keyType) ==
    LET c1 == [ sslContextInitObjects(FreshSslContext) EXCEPT
                  !.xP11Session = 1, !.config = "defaults" ]
        c2 == [ c1 EXCEPT
                  !.rsaMinBitlen = CertProfileRsaMinBitlen(HandshakeArgs.pHostName),
                  !.authmode = "MBEDTLS_SSL_VERIFY_REQUIRED",
                  !.rngBound = TRUE, !.profileBound = TRUE,
                  !.rootCa = "parsed", !.caChainSet = TRUE ]
        c3 == initializeClientKeys(c2, GoodKeyEnv(keyType)).ctx
    IN  [ c3 EXCEPT !.clientCert = "parsed", !.ownCertSet = TRUE,
                    !.context = "setup", !.bioSet = TRUE, !.hostnameSet = TRUE ]

HandshakeCalls(keyType) ==
    << "Sockets_Connect", "mbedtls_threading_set_alt",
       "mbedtls_ssl_config_init", "mbedtls_x509_crt_init:rootCa",
       "mbedtls_x509_crt_init:clientCert", "mbedtls_ssl_init",
       "xInitializePkcs11Session", "C_GetFunctionList",
       "mbedtls_ssl_config_defaults",
       "mbedtls_ssl_conf_authmode", "mbedtls_ssl_conf_rng",
       "mbedtls_ssl_conf_cert_profile", "mbedtls_x509_crt_parse:rootCa",
       "mbedtls_ssl_conf_ca_chain" >>
    \o initializeClientKeys(FreshSslContext, GoodKeyEnv(keyType)).calls
    \o readCertificateIntoContext(GoodCertEnv).calls
    \o << "mbedtls_ssl_conf_own_cert", "mbedtls_ssl_setup", "mbedtls_ssl_set_bio",
          "mbedtls_ssl_set_hostname" >>

\* The state in which the handshake loop is entered with a key of type keyType.
InHandshake(keyType) ==
    /\ pc = "s_hsloop"
    /\ args = HandshakeArgs
    /\ returnStatus = TLS_TRANSPORT_SUCCESS
    /\ setupStatus = TLS_TRANSPORT_SUCCESS
    /\ tcpSocket = 1
    /\ sslContext = HandshakeContext(keyType)
    /\ openSockets = { 1 }
    /\ tokenSessions = { 1 }
    /\ mutexHooks = TRUE
    /\ established = FALSE
    /\ calls = HandshakeCalls(keyType)
    /\ firstFailure = "none"
    /\ hs = NoHs
    /\ sig = NoSig
    /\ io = NoIo
    /\ load = readCertificateIntoContext(GoodCertEnv).load
    /\ otherEstablished = FALSE

SignInit == InHandshake(CKK_RSA) \/ InHandshake(CKK_EC)

SignNext == SignCallback

SpecSign == SignInit /\ [][SignNext]_vars

\* The handshake stage on its own: from the entry of the retry loop to the
\* return of TLS_FreeRTOS_Connect.  The calling thread keeps running, so a
\* step of the call that can be taken is taken; nothing is assumed about the
\* results the engine reports.
HandshakeInit == SignInit

HandshakeNext ==
    \/ tlsSetup_HandshakeStep
    \/ tlsSetup_Return
    \/ Connect_Return

SpecHandshake ==
    HandshakeInit /\ [][HandshakeNext]_vars /\ WF_vars(HandshakeNext)

\* A second network context in the same process.  Of its state only whether
\* its connection is established is kept; the threading callbacks are the
\* process-wide ones, shared with the first context.  Its calls are atomic and
\* are made while the first context is not inside a call.

\* How a TLS_FreeRTOS_Connect on the second context ends: before initMbedtls
\* (parameters rejected, transport connect failed), with a failure of
\* tlsSetup, or with the connection established.
OtherConnectOutcomes == { "notInitialised", "setupFailed", "established" }

\* TLS_FreeRTOS_Connect on the second context: initMbedtls installs the
\* callbacks once the transport is connected, and no later step removes them.
OtherConnect ==
    /\ pc = "idle"
    /\ ~otherEstablished
    /\ \E outcome \in OtherConnectOutcomes :
         /\ mutexHooks' = IF outcome = "notInitialised" THEN mutexHooks ELSE TRUE
         /\ otherEstablished' = ( outcome = "established" )
    /\ UNCHANGED << pc, args, returnStatus, setupStatus, tcpSocket, sslContext,
                    openSockets, tokenSessions, established, calls,
                    firstFailure, hs, sig, io, load >>

\* TLS_FreeRTOS_Disconnect on the second context: it ends with
\* mbedtls_threading_free_alt, whatever close-notify returned.
OtherDisconnect ==
    /\ pc = "idle"
    /\ otherEstablished
    /\ mutexHooks' = FALSE
    /\ otherEstablished' = FALSE
    /\ UNCHANGED << pc, args, returnStatus, setupStatus, tcpSocket, sslContext,
                    openSockets, tokenSessions, established, calls,
                    firstFailure, hs, sig, io, load >>

\* Two contexts: the calls on the first one as in Next, interleaved with
\* whole calls on the second.
TwoContextsNext ==
    \/ Next
    \/ OtherConnect
    \/ OtherDisconnect

SpecTwoContexts == Init /\ [][TwoContextsNext]_vars

\* SignInit holds only states that Spec reaches.
NotInHandshakeRsa == ~InHandshake(CKK_RSA)

NotInHandshakeEc == ~InHandshake(CKK_EC)

-----------------------------------------------------------------------------
(* Properties.                                                             *)

Range(q) == { q[i] : i \in 1..Len(q) }

\* TLS_FreeRTOS_Connect has returned and no other call was made since.
ConnectReturned ==
    /\ pc = "idle"
    /\ io.op = "none"
    /\ ( established \/ returnStatus # TLS_TRANSPORT_SUCCESS )

ConnectFailed == ConnectReturned /\ returnStatus # TLS_TRANSPORT_SUCCESS

\* The stages of tlsSetup that come after sslContextInit.
SetupStages ==
    { "defaults", "rootCa", "clientKey", "clientCert", "alpn", "sslSetup", "sni",
      "handshake" }

\* Engine state, configuration and both chains are freed and the token holds
\* no open session.
ContextReleased ==
    /\ sslContext.context = "freed"
    /\ sslContext.config = "freed"
    /\ sslContext.rootCa = "freed"
    /\ sslContext.clientCert = "freed"
    /\ sslContext.xP11Session \notin tokenSessions
    /\ tokenSessions = { }

\* C1: when Connect returns a failure that a stage of tlsSetup after the
\* context creation caused, the engine state, the configuration and both
\* certificate chains are freed and the token session is closed.
C1_FailedSetupReleasesContext ==
    ( ConnectFailed /\ firstFailure \in SetupStages ) => ContextReleased

C1_Witness ==
    /\ ConnectFailed
    /\ firstFailure = "clientCert"
    /\ "C_CloseSession" \in Range(calls)
    /\ ContextReleased

\* C2: when the trust anchor is one the engine's parser rejects, Connect never
\* succeeds, returns TLS_TRANSPORT_INVALID_CREDENTIALS once the parser has
\* been given the bytes, and leaves no token session open.
C2_MalformedRootCaInvalidCredentials ==
    ( ConnectReturned /\ args.pRootCa = "malformed" ) =>
        /\ returnStatus # TLS_TRANSPORT_SUCCESS
        /\ tokenSessions = { }
        /\ "mbedtls_x509_crt_parse:rootCa" \in Range(calls)
             => returnStatus = TLS_TRANSPORT_INVALID_CREDENTIALS

C2_Witness ==
    /\ ConnectReturned
    /\ args.pRootCa = "malformed"
    /\ firstFailure = "rootCa"
    /\ "xInitializePkcs11Session" \in Range(calls)
    /\ returnStatus = TLS_TRANSPORT_INVALID_CREDENTIALS
    /\ tokenSessions = { }

\* C3: when Connect returns a failure no socket is open, in particular not
\* the one it opened; when it returns success the socket in the context is
\* open.
C3_SocketClosedOnFailureOpenOnSuccess ==
    ConnectReturned =>
        IF returnStatus # TLS_TRANSPORT_SUCCESS
        THEN tcpSocket \notin openSockets /\ openSockets = { }
        ELSE tcpSocket \in openSockets

C3_Witness ==
    /\ ConnectFailed
    /\ firstFailure = "handshake"
    /\ "Sockets_Connect" \in Range(calls)
    /\ "FreeRTOS_closesocket" \in Range(calls)
    /\ openSockets = { }

\* The context, the host name, the credentials or the trust anchor is missing.
ArgsInvalid ==
    args.ctxNull \/ args.hostNull \/ args.credsNull \/ args.pRootCa = NULL

\* C4: a Connect call with a missing context, host name, credentials or trust
\* anchor has status TLS_TRANSPORT_INVALID_PARAMETER from the check on, and at
\* no point of the call has it connected the transport, installed the mutex
\* hooks, run a stage of tlsSetup or opened a token session.
C4_InvalidParameterDoesNothing ==
    ( ( pc # "idle" \/ ConnectReturned ) /\ ArgsInvalid ) =>
        /\ returnStatus = TLS_TRANSPORT_INVALID_PARAMETER
        /\ Range(calls) \subseteq { "FreeRTOS_closesocket",
                                    "FreeRTOS_closesocket:notOpen" }
        /\ tokenSessions = { }
        /\ openSockets = { }

C4_Witness ==
    /\ ConnectReturned
    /\ ~args.ctxNull /\ ~args.hostNull /\ ~args.credsNull
    /\ args.pRootCa = NULL
    /\ returnStatus = TLS_TRANSPORT_INVALID_PARAMETER

\* C5: after Disconnect, whatever close-notify returned, the socket is
\* closed and the SSL context is released, the token session included.
C5_DisconnectAlwaysReleases ==
    io.op = "disconnect" =>
        /\ tcpSocket \notin openSockets
        /\ openSockets = { }
        /\ ContextReleased
        /\ { "Sockets_Disconnect", "C_CloseSession" } \subseteq Range(calls)

C5_Witness ==
    /\ io.op = "disconnect"
    /\ io.engine \in OtherEngineErrors
    /\ openSockets = { }
    /\ ContextReleased

\* The status the table of C6 gives for the first stage that failed.
StatusOfStage(stage) ==
    CASE stage = "none" -> TLS_TRANSPORT_SUCCESS
      [] stage = "validate" -> TLS_TRANSPORT_INVALID_PARAMETER
      [] stage = "connect" -> TLS_TRANSPORT_CONNECT_FAILURE
      [] stage = "defaults" -> TLS_TRANSPORT_INSUFFICIENT_MEMORY
      [] stage = "rootCa" -> TLS_TRANSPORT_INVALID_CREDENTIALS
      [] stage = "clientKey" -> TLS_TRANSPORT_INVALID_CREDENTIALS
      [] stage = "clientCert" -> TLS_TRANSPORT_INVALID_CREDENTIALS
      [] stage = "alpn" -> TLS_TRANSPORT_INTERNAL_ERROR
      [] stage = "sslSetup" -> TLS_TRANSPORT_INTERNAL_ERROR
      [] stage = "sni" -> TLS_TRANSPORT_INTERNAL_ERROR
      [] stage = "handshake" -> TLS_TRANSPORT_HANDSHAKE_FAILED

\* C6: the status Connect returns is the one the table gives for the first
\* stage that failed, and it is success exactly when no stage failed.
C6_StatusByFirstFailure ==
    ConnectReturned =>
        /\ returnStatus = StatusOfStage(firstFailure)
        /\ ( returnStatus = TLS_TRANSPORT_SUCCESS ) <=> ( firstFailure = "none" )

C6_Witness ==
    /\ ConnectReturned
    /\ firstFailure = "sni"
    /\ returnStatus = TLS_TRANSPORT_INTERNAL_ERROR

\* The engine results recv and send turn into 0.
RetryResults ==
    { MBEDTLS_ERR_SSL_TIMEOUT, MBEDTLS_ERR_SSL_WANT_READ,
      MBEDTLS_ERR_SSL_WANT_WRITE }

\* C7: recv and send return 0 for timeout, want-read and want-write, a
\* positive byte count unchanged, and any other negative engine result
\* unchanged, which is then not 0.
C7_RecvSendMapping ==
    io.op \in { "recv", "send" } =>
        /\ io.engine \in RetryResults => io.ret = 0
        /\ io.engine > 0 => io.ret = io.engine
        /\ ( io.engine < 0 /\ io.engine \notin RetryResults )
             => ( io.ret = io.engine /\ io.ret # 0 )

C7_Witness ==
    /\ io.op = "recv"
    /\ io.engine = MBEDTLS_ERR_SSL_WANT_WRITE
    /\ io.ret = 0

\* C8: with an RSA key and a hash longer than 256 bytes the callback returns
\* -1 and calls neither C_SignInit nor C_Sign.
C8_RsaLongHashRejected ==
    ( sig.called /\ sig.keyType = CKK_RSA /\ sig.xHashLen > ToBeSignedSize ) =>
        ( sig.ret = -1 /\ sig.tokenCalls = << >> )

\* C9 as stated: with an RSA key and a hash of at most 256 bytes, C_Sign gets
\* the DigestInfo header followed by the whole hash, the length covers both,
\* and the mechanism is CKM_RSA_PKCS.
C9_RsaInputIsPrefixAndWholeHash ==
    ( /\ sig.called
      /\ sig.keyType = CKK_RSA
      /\ sig.xHashLen <= ToBeSignedSize
      /\ "C_Sign" \in Range(sig.tokenCalls) ) =>
        /\ sig.toBeSigned = DigestInfoPrefix \o sig.hash
        /\ sig.toBeSignedLen = Len(DigestInfoPrefix) + sig.xHashLen
        /\ sig.mech = CKM_RSA_PKCS

\* C9, amended: with an RSA key and a hash of exactly 32 bytes, C_Sign gets the
\* DigestInfo header followed by the hash, the length covers both, and the
\* mechanism is CKM_RSA_PKCS.
C9_RsaInputIsPrefixAnd32ByteHash ==
    ( /\ sig.called
      /\ sig.keyType = CKK_RSA
      /\ sig.xHashLen = pkcs11SHA256_DIGEST_LENGTH
      /\ "C_Sign" \in Range(sig.tokenCalls) ) =>
        /\ sig.toBeSigned = DigestInfoPrefix \o sig.hash
        /\ sig.toBeSignedLen = Len(DigestInfoPrefix) + sig.xHashLen
        /\ sig.mech = CKM_RSA_PKCS

C9_Witness ==
    /\ sig.called
    /\ sig.keyType = CKK_RSA
    /\ sig.xHashLen = pkcs11SHA256_DIGEST_LENGTH
    /\ "C_Sign" \in Range(sig.tokenCalls)
    /\ sig.toBeSigned = DigestInfoPrefix \o sig.hash
    /\ sig.mech = CKM_RSA_PKCS

\* C10: with an EC key, when C_Sign succeeds with a signature that is not 64
\* bytes long, the callback fails with CKR_FUNCTION_FAILED, returns -1, and
\* the signature buffer still holds what the token wrote.
C10_EcWrongLengthFailsUnconverted ==
    ( /\ sig.called
      /\ sig.keyType = CKK_EC
      /\ sig.tokenSig # << >>
      /\ Len(sig.tokenSig) # pkcs11ECDSA_P256_SIGNATURE_LENGTH ) =>
        /\ sig.xResult = CKR_FUNCTION_FAILED
        /\ sig.ret = -1
        /\ ~sig.converted
        /\ sig.pucSig = sig.tokenSig
        /\ sig.sigLen = Len(sig.tokenSig)

C10_Witness ==
    /\ sig.called
    /\ sig.keyType = CKK_EC
    /\ Len(sig.tokenSig) = 65
    /\ sig.ret = -1
    /\ ~sig.converted

\* The value bytes of a DER INTEGER: its content without the zero byte that
\* stands before a value whose top bit is set.
DerIntegerValue(content) ==
    IF Len(content) > 1 /\ content[1] = 0 /\ content[2] >= 128
    THEN Tail(content) ELSE content

\* der is the encoding SEQUENCE { INTEGER, INTEGER } of the values r and s,
\* both INTEGERs positive.
IsDerSignatureOf(der, r, s) ==
    /\ Len(der) >= 4
    /\ der[1] = 48
    /\ der[2] = Len(der) - 2
    /\ der[3] = 2
    /\ 4 + der[4] + 2 <= Len(der)
    /\ LET p == 5 + der[4]
           first == SubSeq(der, 5, p - 1)
       IN  /\ der[p] = 2
           /\ p + 1 + der[p + 1] = Len(der)
           /\ LET second == SubSeq(der, p + 2, Len(der))
              IN  /\ first # << >> /\ second # << >>
                  /\ first[1] < 128 /\ second[1] < 128
                  /\ DerIntegerValue(first) = r
                  /\ DerIntegerValue(second) = s

\* C11: with an EC key, when C_Sign hands back a signature of exactly 64
\* bytes, the callback returns 0 with the signature buffer holding the DER
\* SEQUENCE of two INTEGERs whose values are the first and the second 32
\* bytes, a zero byte before a value whose top bit is set, and the reported
\* length is the length of that encoding.
C11_EcSignatureReencodedAsDer ==
    ( /\ sig.called
      /\ sig.keyType = CKK_EC
      /\ Len(sig.tokenSig) = pkcs11ECDSA_P256_SIGNATURE_LENGTH ) =>
        /\ sig.ret = 0
        /\ sig.converted
        /\ IsDerSignatureOf(sig.pucSig, SubSeq(sig.tokenSig, 1, 32),
                            SubSeq(sig.tokenSig, 33, 64))
        /\ ( sig.tokenSig[1] >= 128 ) <=> ( sig.pucSig[5] = 0 )
        /\ sig.sigLen = Len(sig.pucSig)

C11_Witness ==
    /\ sig.called
    /\ sig.keyType = CKK_EC
    /\ Len(sig.tokenSig) = pkcs11ECDSA_P256_SIGNATURE_LENGTH
    /\ sig.tokenSig[1] >= 128
    /\ sig.tokenSig[33] < 128
    /\ sig.converted
    /\ sig.sigLen = 71

C20_SignOnlyAfterSignInit ==
    sig.called =>
        /\ "C_Sign" \in Range(sig.tokenCalls) =>
             /\ sig.tokenCalls = << "C_SignInit", "C_Sign" >>
             /\ sig.signInitRv = << CKR_OK >>
             /\ sig.signInitKey = sslContext.xP11PrivateKey
             /\ sig.keyType = CKK_RSA => sig.signInitMech = CKM_RSA_PKCS
             /\ sig.keyType = CKK_EC => sig.signInitMech = CKM_ECDSA
        /\ ( sig.signInitRv # << >> /\ sig.signInitRv # << CKR_OK >> ) =>
             ( sig.signRv = << >> /\ "C_Sign" \notin Range(sig.tokenCalls) )
        /\ ( \/ ( sig.signInitRv # << >> /\ sig.signInitRv # << CKR_OK >> )
             \/ ( sig.signRv # << >> /\ sig.signRv # << CKR_OK >> ) ) =>
             /\ sig.ret = -1
             /\ ~sig.converted
             /\ sig.pucSig = sig.tokenSig

C20_Witness ==
    /\ sig.called
    /\ sig.keyType = CKK_EC
    /\ sig.signInitRv = << CKR_DEVICE_ERROR >>
    /\ sig.tokenCalls = << "C_SignInit" >>
    /\ sig.ret = -1
    /\ ~sig.converted

\* C13: the status Connect returns for a failed client certificate load is
\* the classification readCertificateIntoContext made: a load that failed
\* with CKR_HOST_MEMORY, because the buffer could not be allocated, is
\* returned as TLS_TRANSPORT_INSUFFICIENT_MEMORY.
C13_CertLoadFailureKeepsClassification ==
    ( /\ ConnectReturned
      /\ firstFailure = "clientCert"
      /\ "pvPortMalloc:cert:NULL" \in Range(calls) ) =>
        returnStatus = TLS_TRANSPORT_INSUFFICIENT_MEMORY

\* The engine's connection state object has been initialised and not freed.
EngineStateAlive == sslContext.context \in { "init", "setup" }

\* C14: whenever the engine's connection state object is alive, the session
\* handle in the context names an open token session.
C14_SessionOpenWhileEngineAlive ==
    EngineStateAlive => sslContext.xP11Session \in tokenSessions

\* C15: between calls, the threading callbacks are installed exactly while
\* the connection is established: installed after a successful Connect, not
\* installed after a failed Connect and after Disconnect.
C15_HooksInstalledIffEstablished ==
    pc = "idle" => ( mutexHooks <=> established )

\* The last Connect found the trust anchor parsed, bound the RSA key of the
\* token, loaded the client certificate, connected the transport and saw the
\* handshake complete.
HappyPath ==
    /\ ~ArgsInvalid
    /\ args.pRootCa = "valid"
    /\ sslContext.xKeyType = CKK_RSA
    /\ hs.n > 0
    /\ hs.last = 0

\* C16: when the trust anchor parses, the token supplies its RSA key and
\* certificate, the transport connects and the handshake completes, Connect
\* returns TLS_TRANSPORT_SUCCESS and leaves the socket and the token session
\* open; a send for which the engine writes N bytes then returns N, and a recv
\* after it for which the engine delivers the N bytes echoed returns N.
C16_EndToEnd ==
    /\ ( ConnectReturned /\ HappyPath ) =>
         /\ returnStatus = TLS_TRANSPORT_SUCCESS
         /\ established
         /\ tcpSocket \in openSockets
         /\ sslContext.xP11Session \in tokenSessions
    /\ ( HappyPath /\ io.op = "send" /\ io.engine > 0 ) =>
         ( io.ret = io.engine /\ io.sent = io.engine )
    /\ ( HappyPath /\ io.op = "recv" /\ io.sent > 0 /\ io.engine = io.sent ) =>
         io.ret = io.sent

C16_Witness ==
    /\ HappyPath
    /\ established
    /\ tcpSocket \in openSockets
    /\ io.op = "recv"
    /\ io.sent = 16
    /\ io.ret = 16

\* The stages of a Connect call, in the order the code runs them.
StageOrder ==
    << "validate", "connect", "defaults", "rootCa", "clientKey", "clientCert",
       "alpn", "sslSetup", "sni", "handshake" >>

\* The collaborator operations each stage invokes.
OpsOfStage(stage) ==
    CASE stage = "validate" -> { }
      [] stage = "connect" -> { "Sockets_Connect" }
      [] stage = "defaults" -> { "mbedtls_ssl_config_defaults" }
      [] stage = "rootCa" ->
           { "mbedtls_ssl_conf_authmode", "mbedtls_ssl_conf_rng",
             "mbedtls_ssl_conf_cert_profile", "mbedtls_x509_crt_parse:rootCa",
             "mbedtls_ssl_conf_ca_chain" }
      [] stage = "clientKey" ->
           { "C_GetSlotList:count", "pvPortMalloc:slots", "pvPortMalloc:slots:NULL",
             "C_GetSlotList:list", "C_Login", "xFindObjectWithLabelAndClass:key",
             "C_GetAttributeValue:keyType",
             "C_GetAttributeValue:keyType:invalidHandle",
             "mbedtls_pk_info_from_type" }
      [] stage = "clientCert" ->
           { "xFindObjectWithLabelAndClass:cert", "C_GetAttributeValue:probe",
             "pvPortMalloc:cert", "pvPortMalloc:cert:NULL",
             "C_GetAttributeValue:fill", "mbedtls_x509_crt_parse:clientCert",
             "mbedtls_ssl_conf_own_cert" }
      [] stage = "alpn" -> { "mbedtls_ssl_conf_alpn_protocols" }
      [] stage = "sslSetup" -> { "mbedtls_ssl_setup", "mbedtls_ssl_set_bio" }
      [] stage = "sni" -> { "mbedtls_ssl_set_hostname" }
      [] stage = "handshake" -> { "mbedtls_ssl_handshake" }

\* The operations that release what the call holds.
CleanupOps ==
    Range(sslContextFreeCalls)
      \cup { "vPortFree:slots", "vPortFree:cert", "vPortFree:NULL",
             "FreeRTOS_closesocket", "FreeRTOS_closesocket:notOpen" }

StageIndex(stage) == CHOOSE i \in 1..Len(StageOrder) : StageOrder[i] = stage

\* The stages that come after stage.
LaterStages(stage) ==
    { StageOrder[i] : i \in ( StageIndex(stage) + 1 )..Len(StageOrder) }

\* The position in calls of the last operation of stage, 0 when it has none.
LastOpOf(stage) ==
    LET at == { i \in 1..Len(calls) : calls[i] \in OpsOfStage(stage) }
    IN  IF at = { } THEN 0 ELSE CHOOSE i \in at : \A j \in at : j <= i

WouldBlock == { MBEDTLS_ERR_SSL_WANT_READ, MBEDTLS_ERR_SSL_WANT_WRITE }

\* The handshake loop of the call has been left.
HandshakeLoopLeft == hs.n > 0 /\ pc # "s_hsloop"

\* C18: while the loop runs every result so far was would-block; when it has
\* been left, the last result is the first one that is not would-block, the
\* status is TLS_TRANSPORT_SUCCESS when that result is 0 and
\* TLS_TRANSPORT_HANDSHAKE_FAILED for every other one, so that a would-block
\* result never ends the loop and never yields HANDSHAKE_FAILED.
C18_HandshakeRetriesOnWouldBlockOnly ==
    /\ ( pc = "s_hsloop" /\ hs.n > 0 ) =>
         /\ hs.last \in WouldBlock
         /\ Range(hs.log) \subseteq WouldBlock
         /\ setupStatus = TLS_TRANSPORT_SUCCESS
    /\ HandshakeLoopLeft =>
         /\ hs.last \notin WouldBlock
         /\ \A i \in 1..Len(hs.log) :
              hs.log[i] \notin WouldBlock => ( i = Len(hs.log) /\ hs.log[i] = hs.last )
         /\ hs.last = 0 => setupStatus = TLS_TRANSPORT_SUCCESS
         /\ hs.last # 0 => setupStatus = TLS_TRANSPORT_HANDSHAKE_FAILED

C18_Witness ==
    /\ HandshakeLoopLeft
    /\ Len(hs.log) = 2
    /\ hs.log[1] = MBEDTLS_ERR_SSL_WANT_WRITE
    /\ hs.log[2] = MBEDTLS_ERR_SSL_TIMEOUT
    /\ setupStatus = TLS_TRANSPORT_HANDSHAKE_FAILED

\* C19: from the retry loop, either Connect returns, and then the last
\* handshake result was not would-block, or the loop runs for ever with every
\* result would-block; the loop is left only by a step that saw a result that
\* is not would-block.
C19_ReturnsIffEngineStopsBlocking ==
    /\ [][ ( pc = "s_hsloop" /\ pc' # "s_hsloop" ) =>
             ( pc' = "s_cleanup" /\ hs'.last \notin WouldBlock ) ]_vars
    /\ []( pc = "s_hsloop" =>
             ( \/ <>( pc = "idle" /\ hs.n > 0 /\ hs.last \notin WouldBlock )
               \/ []( pc = "s_hsloop" /\ ( hs.n > 0 => hs.last \in WouldBlock ) ) ) )

C19_Witness ==
    /\ pc = "idle"
    /\ established
    /\ hs.n >= 2
    /\ hs.log[1] = MBEDTLS_ERR_SSL_WANT_READ
    /\ hs.last = 0

\* C21: the certificate profile bound to the configuration has the relaxed
\* RSA minimum of 1024 bits exactly when the host name of the call is the
\* allow-listed name, character for character; for the empty name and for a
\* proper prefix of the allow-listed name it has the default minimum.
C21_RelaxedProfileForExactNameOnly ==
    sslContext.profileBound =>
        /\ ( sslContext.rsaMinBitlen = RelaxedRsaMinBitlen )
             <=> ( args.pHostName = LegacyHostName )
        /\ args.pHostName # LegacyHostName =>
             sslContext.rsaMinBitlen = DefaultRsaMinBitlen

\* The token operations that are handed the session handle of the context.
SessionOps ==
    { "C_Login", "xFindObjectWithLabelAndClass:key", "C_GetAttributeValue:keyType",
      "C_GetAttributeValue:keyType:invalidHandle",
      "xFindObjectWithLabelAndClass:cert", "C_GetAttributeValue:probe",
      "C_GetAttributeValue:fill", "C_SignInit", "C_Sign", "C_GenerateRandom",
      "C_CloseSession" }

\* C22: when xInitializePkcs11Session could not open a session, the call
\* hands the session handle to no token operation: no login, find-object,
\* attribute read, random or sign on it, and no C_CloseSession.
C22_NoSessionUseAfterOpenFailure ==
    "xInitializePkcs11Session:failed" \in Range(calls) =>
        Range(calls) \cap SessionOps = { }

\* The steps of readCertificateIntoContext in the order of the protocol.
CertLoadOrder ==
    << "xFindObjectWithLabelAndClass:cert", "C_GetAttributeValue:probe",
       "pvPortMalloc:cert", "C_GetAttributeValue:fill",
       "mbedtls_x509_crt_parse:clientCert" >>

\* An allocation is the same step whether or not it hands back a buffer.
CertLoadStep(op) == IF op = "pvPortMalloc:cert:NULL" THEN "pvPortMalloc:cert" ELSE op

IsCertLoadOp(op) == CertLoadStep(op) \in Range(CertLoadOrder)

\* The steps the certificate load of the call has taken.
CertLoadOps == SelectSeq(calls, IsCertLoadOp)

\* C23: readCertificateIntoContext takes its steps in the order find-object,
\* size probe, allocation, fill read, parse, and stops at the first one that
\* fails: every step but the last one taken succeeded and the result is that
\* of the last.  The buffer asked for has exactly the probed size, and so
\* have the fill read and the parse.  With no handle or the invalid handle no
\* attribute is read, with a failed allocation there is no fill read, and
\* nothing is parsed that the fill read did not fill.
C23_CertLoadFollowsProtocol ==
    load.called =>
        /\ Len(CertLoadOps) = Len(load.results)
        /\ Len(CertLoadOps) \in 1..Len(CertLoadOrder)
        /\ \A i \in 1..Len(CertLoadOps) :
             /\ CertLoadStep(CertLoadOps[i]) = CertLoadOrder[i]
             /\ i < Len(CertLoadOps) => load.results[i] = CKR_OK
        /\ load.xResult = load.results[Len(load.results)]
        /\ load.mallocSize \in { << >>, << load.ulValueLen >> }
        /\ load.fillLen \in { << >>, load.mallocSize }
        /\ load.parseLen \in { << >>, load.fillLen }
        /\ load.results[1] # CKR_OK =>
             ( CertLoadOps = << "xFindObjectWithLabelAndClass:cert" >>
               /\ load.mallocSize = << >> )
        /\ "pvPortMalloc:cert:NULL" \in Range(calls) =>
             /\ load.fillLen = << >>
             /\ load.parseLen = << >>
             /\ "C_GetAttributeValue:fill" \notin Range(calls)
             /\ load.xResult = CKR_HOST_MEMORY
        /\ load.parseLen # << >> =>
             ( load.fillLen = load.parseLen /\ load.results[4] = CKR_OK )

C23_Witness ==
    /\ load.called
    /\ load.ulValueLen = 7
    /\ "pvPortMalloc:cert:NULL" \in Range(calls)
    /\ load.results = << CKR_OK, CKR_OK, CKR_HOST_MEMORY >>
    /\ "C_GetAttributeValue:fill" \notin Range(calls)

\* How many times the operation op was called.
CallCount(op) == Cardinality({ i \in DOMAIN calls : calls[i] = op })

\* The calls of vPortFree, on a buffer or on NULL.
FreeOps == { "vPortFree:cert", "vPortFree:slots", "vPortFree:NULL" }

\* Every release of the buffer named by freeOp follows its allocation.
FreedAfterAllocated(mallocOp, freeOp) ==
    \A i \in DOMAIN calls :
        calls[i] = freeOp => \E j \in 1..(i - 1) : calls[j] = mallocOp

\* C24: the temporary certificate buffer is released exactly once on every
\* exit path of readCertificateIntoContext, failing paths included, and so is
\* the slot-list buffer of initializeClientKeys: each function that ran made
\* exactly one call of vPortFree, a buffer that was handed out is released
\* once after its allocation, and none is released that was not handed out.
C24_TemporaryBuffersReleasedOnce ==
    /\ CallCount("vPortFree:cert") = CallCount("pvPortMalloc:cert")
    /\ CallCount("vPortFree:cert") <= 1
    /\ CallCount("vPortFree:slots") = CallCount("pvPortMalloc:slots")
    /\ CallCount("vPortFree:slots") <= 1
    /\ FreedAfterAllocated("pvPortMalloc:cert", "vPortFree:cert")
    /\ FreedAfterAllocated("pvPortMalloc:slots", "vPortFree:slots")
    /\   CallCount("vPortFree:cert") + CallCount("vPortFree:slots")
       + CallCount("vPortFree:NULL")
       =   CallCount("C_GetSlotList:count")
         + CallCount("xFindObjectWithLabelAndClass:cert")
    /\ load.called =>
         \A i \in DOMAIN calls :
             calls[i] \in { "vPortFree:cert", "vPortFree:NULL" }
                 => \A j \in (i + 1)..Len(calls) : ~IsCertLoadOp(calls[j])

C24_Witness ==
    /\ load.called
    /\ load.xResult # CKR_OK
    /\ load.fillLen # << >>
    /\ CallCount("pvPortMalloc:cert") = 1
    /\ CallCount("vPortFree:cert") = 1
    /\ CallCount("vPortFree:slots") = 1

\* The key lookup of the call was made and left the invalid handle.
KeyNotFound ==
    /\ "xFindObjectWithLabelAndClass:key" \in Range(calls)
    /\ sslContext.xP11PrivateKey = CK_INVALID_HANDLE
    /\ sslContext.context # "freed"

\* C25: when the lookup of the device private key leaves the invalid handle
\* (key not found), client-key initialization fails and the setup status is
\* InvalidCredentials; the invalid handle is not used for the key-type
\* attribute read and is not bound as the signing key.
C25_KeyNotFoundIsInvalidCredentials ==
    KeyNotFound =>
        /\ setupStatus = TLS_TRANSPORT_INVALID_CREDENTIALS
        /\ "C_GetAttributeValue:keyType:invalidHandle" \notin Range(calls)
        /\ ~sslContext.privKeyBound

\* C26: for an EC key the callback writes no more than the 256 bytes of
\* xToBeSigned: a hash longer than the buffer is rejected before any byte of
\* it is copied.
C26_EcCopyFitsWorkingBuffer ==
    ( sig.called /\ sig.keyType = CKK_EC ) =>
        /\ sig.copied <= ToBeSignedSize
        /\ sig.xHashLen > ToBeSignedSize => sig.copied = 0

\* The calls that close a transport socket from inside TLS_FreeRTOS_Connect.
ConnectCloseOps == { "FreeRTOS_closesocket", "FreeRTOS_closesocket:notOpen" }

\* C27: a Connect that is rejected with InvalidParameter, or whose
\* Sockets_Connect fails, has opened no socket and closes none: the handle an
\* earlier connection left in the context is not closed again.
C27_ConnectClosesOnlyItsOwnSocket ==
    ( /\ ConnectReturned
      /\ returnStatus \in { TLS_TRANSPORT_INVALID_PARAMETER,
                            TLS_TRANSPORT_CONNECT_FAILURE }
      /\ tcpSocket \in SocketHandles ) =>
        Range(calls) \cap ConnectCloseOps = { }

\* C28: a Connect that installed the threading callbacks and then returns a
\* status other than Success has removed them again before it returns.
C28_FailedConnectRemovesHooks ==
    ( /\ ConnectFailed
      /\ "mbedtls_threading_set_alt" \in Range(calls) ) =>
        /\ ~mutexHooks
        /\ "mbedtls_threading_free_alt" \in Range(calls)

\* C29: with two contexts whose calls interleave, between calls the threading
\* callbacks are installed as long as the connection of at least one context
\* is established.
C29_HooksStayWhileAnyConnected ==
    ( pc = "idle" /\ ( established \/ otherEstablished ) ) => mutexHooks

====
